---- MODULE Spec2Model ----
(***************************************************************************)
(* Model of geographic_choropleth_map.py: the pipeline run by main(),      *)
(*   load_sales_data -> calculate_geographic_dominance ->                  *)
(*   create_choropleth_map,                                                *)
(* over one in-memory table read from product_sales.csv.                   *)
(*                                                                         *)
(* Floating-point columns are modelled as exact rationals in lowest terms  *)
(* ([num, den], den > 0); the float NaN is the value with den = 0.  A      *)
(* missing string (the NaN that Series.map leaves for an unmapped key) is  *)
(* the string NaNStr.                                                      *)
(***************************************************************************)
EXTENDS Integers, Sequences, FiniteSets

VARIABLES
    csv_exists,       \* whether product_sales.csv exists
    csv,              \* its rows (the frame pd.read_csv would return)
    pc,               \* position of main(): "load", "aggregate", "render", "done"
    sales_data,       \* main's sales_data once load_sales_data has returned
    choropleth_data,  \* main's choropleth_data once the aggregator has returned
    error,            \* which except clause of main ran: "none", "FileNotFoundError", "Exception"
    failed_in,        \* the stage whose call raised: "none", "load", "aggregate", "render"
    html,             \* sales_method_dominance_choropleth.html: "absent", "partial", "complete"
    stdout            \* the lines printed so far

vars == <<csv_exists, csv, pc, sales_data, choropleth_data, error, failed_in, html, stdout>>

(***************************************************************************)
(* Bounds of the input tables.                                             *)
(***************************************************************************)
MaxRows == 3
MaxAggRows == 4
MaxCount == 7

(***************************************************************************)
(* Numbers.                                                                *)
(***************************************************************************)
RECURSIVE GCD(_, _)
GCD(a, b) == IF b = 0 THEN a ELSE GCD(b, a % b)

Abs(n) == IF n < 0 THEN -n ELSE n

\* n/d in lowest terms, d > 0
Rat(n, d) ==
    LET g == GCD(Abs(n), d)
    IN  [num |-> n \div g, den |-> d \div g]

Num(n) == [num |-> n, den |-> 1]

NaN == [num |-> 0, den |-> 0]

IsNull(x) == x.den = 0

RatAdd(a, b) ==
    IF IsNull(a) \/ IsNull(b) THEN NaN
    ELSE Rat(a.num * b.den + b.num * a.den, a.den * b.den)

\* a / n for an integer n >= 0; 0/0 and x/0 are not finite numbers
RatDivInt(a, n) ==
    IF IsNull(a) \/ n = 0 THEN NaN ELSE Rat(a.num, a.den * n)

RatMulInt(a, n) ==
    IF IsNull(a) THEN NaN ELSE Rat(a.num * n, a.den)

\* a < b for two finite numbers
RatLess(a, b) == a.num * b.den < b.num * a.den

NaNStr == "NaN"

(***************************************************************************)
(* load_sales_data                                                         *)
(***************************************************************************)
sales_method_mapping ==
    [k \in {"Email", "Call", "Email + Call", "em + call", "email"} |->
        CASE k = "Email"        -> "Email"
          [] k = "Call"         -> "Call"
          [] k = "Email + Call" -> "Email + Call"
          [] k = "em + call"    -> "Email + Call"
          [] k = "email"        -> "Email"]

\* Series.map(dict): a value that is no key of the dict becomes NaN
MapValue(m) ==
    IF m \in DOMAIN sales_method_mapping THEN sales_method_mapping[m] ELSE NaNStr

\* sales_data['sales_method'] = sales_data['sales_method'].map(sales_method_mapping)
MapSalesMethodDropUnmapped(t) ==
    LET mapped == [i \in DOMAIN t |-> [t[i] EXCEPT !.sales_method = MapValue(@)]]
    IN  SelectSeq(mapped, LAMBDA r : r.sales_method # NaNStr)

MapSalesMethod(t) ==
    [i \in DOMAIN t |-> [t[i] EXCEPT !.sales_method = MapValue(@)]]

\* the rows of group m whose revenue is present, in table order
RECURSIVE RevenueSum(_, _, _)
RevenueSum(t, m, i) ==
    IF i = 0 THEN Num(0)
    ELSE IF t[i].sales_method = m /\ ~IsNull(t[i].revenue)
         THEN RatAdd(RevenueSum(t, m, i - 1), t[i].revenue)
         ELSE RevenueSum(t, m, i - 1)

RECURSIVE RevenueCount(_, _, _)
RevenueCount(t, m, i) ==
    IF i = 0 THEN 0
    ELSE RevenueCount(t, m, i - 1)
         + (IF t[i].sales_method = m /\ ~IsNull(t[i].revenue) THEN 1 ELSE 0)

RECURSIVE GroupSize(_, _, _)
GroupSize(t, m, i) ==
    IF i = 0 THEN 0
    ELSE GroupSize(t, m, i - 1) + (IF t[i].sales_method = m THEN 1 ELSE 0)

\* groupby drops the rows whose key is NaN
GroupKeys(t) == {t[i].sales_method : i \in DOMAIN t} \ {NaNStr}

\* a mean that counts a missing revenue as a row of the group
mean_revenue_by_method_all_rows(t) ==
    [m \in GroupKeys(t) |->
        RatDivInt(RevenueSum(t, m, Len(t)), GroupSize(t, m, Len(t)))]

\* mean_revenue_by_method = sales_data.groupby('sales_method')['revenue'].mean()
\* (mean skips NaN; the mean of a group with no revenue present is NaN)
mean_revenue_by_method(t) ==
    [m \in GroupKeys(t) |->
        RatDivInt(RevenueSum(t, m, Len(t)), RevenueCount(t, m, Len(t)))]

\* mean_revenue_by_method[row['sales_method']] raises KeyError for a NaN label
ReplaceRaises(row, means) ==
    IsNull(row.revenue) /\ row.sales_method \notin DOMAIN means

\* replace_null_revenue(row), where it does not raise
replace_null_revenue(row, means) ==
    IF IsNull(row.revenue) THEN means[row.sales_method] ELSE row.revenue

TenureCap == 39

\* a clamp whose comparison is off by one
ClampTenureOffByOne(t) ==
    [i \in DOMAIN t |->
        IF t[i].years_as_customer > TenureCap + 1
        THEN [t[i] EXCEPT !.years_as_customer = TenureCap]
        ELSE t[i]]

\* sales_data.loc[sales_data['years_as_customer'] > 39, 'years_as_customer'] = 39
ClampTenure(t) ==
    [i \in DOMAIN t |->
        IF t[i].years_as_customer > TenureCap
        THEN [t[i] EXCEPT !.years_as_customer = TenureCap]
        ELSE t[i]]

Returned(v) == [raised |-> "none", value |-> v]
Raised(e) == [raised |-> e, value |-> <<>>]

\* The possible results of load_sales_data('product_sales.csv').  DataFrame.apply
\* over a frame with no rows returns a frame, and assigning that to one column
\* is accepted or rejected depending on the pandas release.
load_sales_data(exists, t) ==
    IF ~exists THEN {Raised("FileNotFoundError")}
    ELSE IF Len(t) = 0 THEN {Raised("Exception"), Returned(<<>>)}
    ELSE
        LET mapped == MapSalesMethod(t)
            means  == mean_revenue_by_method(mapped)
        IN  IF \E i \in DOMAIN mapped : ReplaceRaises(mapped[i], means)
            THEN {Raised("Exception")}
            ELSE {Returned(ClampTenure(
                    [i \in DOMAIN mapped |->
                        [mapped[i] EXCEPT !.revenue = replace_null_revenue(mapped[i], means)]]))}

(***************************************************************************)
(* calculate_geographic_dominance                                          *)
(***************************************************************************)
\* the state names and the category labels of the inputs, in the sorted order
\* in which groupby and unstack lay out their keys
SortedStates == <<"Atlantis", "Texas">>
SortedLabels == <<"Call", "Email", "Email + Call">>

numeric_cols == <<"Call", "Email", "Email + Call">>

StateAbbrevPairs == {
    <<"Alabama", "AL">>, <<"Alaska", "AK">>, <<"Arizona", "AZ">>, <<"Arkansas", "AR">>,
    <<"California", "CA">>, <<"Colorado", "CO">>, <<"Connecticut", "CT">>, <<"Delaware", "DE">>,
    <<"Florida", "FL">>, <<"Georgia", "GA">>, <<"Hawaii", "HI">>, <<"Idaho", "ID">>,
    <<"Illinois", "IL">>, <<"Indiana", "IN">>, <<"Iowa", "IA">>, <<"Kansas", "KS">>,
    <<"Kentucky", "KY">>, <<"Louisiana", "LA">>, <<"Maine", "ME">>, <<"Maryland", "MD">>,
    <<"Massachusetts", "MA">>, <<"Michigan", "MI">>, <<"Minnesota", "MN">>, <<"Mississippi", "MS">>,
    <<"Missouri", "MO">>, <<"Montana", "MT">>, <<"Nebraska", "NE">>, <<"Nevada", "NV">>,
    <<"New Hampshire", "NH">>, <<"New Jersey", "NJ">>, <<"New Mexico", "NM">>, <<"New York", "NY">>,
    <<"North Carolina", "NC">>, <<"North Dakota", "ND">>, <<"Ohio", "OH">>, <<"Oklahoma", "OK">>,
    <<"Oregon", "OR">>, <<"Pennsylvania", "PA">>, <<"Rhode Island", "RI">>, <<"South Carolina", "SC">>,
    <<"South Dakota", "SD">>, <<"Tennessee", "TN">>, <<"Texas", "TX">>, <<"Utah", "UT">>,
    <<"Vermont", "VT">>, <<"Virginia", "VA">>, <<"Washington", "WA">>, <<"West Virginia", "WV">>,
    <<"Wisconsin", "WI">>, <<"Wyoming", "WY">>}

state_abbrev ==
    [s \in {p[1] : p \in StateAbbrevPairs} |->
        (CHOOSE p \in StateAbbrevPairs : p[1] = s)[2]]

\* Series.map(state_abbrev)
AbbrevOf(s) == IF s \in DOMAIN state_abbrev THEN state_abbrev[s] ELSE NaNStr

\* groupby(['state', 'sales_method']).size(): rows with a NaN key are in no group
RECURSIVE GroupCount(_, _, _, _)
GroupCount(t, s, m, i) ==
    IF i = 0 THEN 0
    ELSE GroupCount(t, s, m, i - 1)
         + (IF t[i].state = s /\ t[i].sales_method = m THEN 1 ELSE 0)

Grouped(t) == {i \in DOMAIN t : t[i].sales_method # NaNStr /\ t[i].state # NaNStr}

\* .unstack(fill_value=0): one row per state and one column per label that heads
\* at least one group; an absent (state, label) pair is filled with 0
IndexOf(t) == SelectSeq(SortedStates, LAMBDA s : \E i \in Grouped(t) : t[i].state = s)
ColumnsOf(t) == SelectSeq(SortedLabels, LAMBDA m : \E i \in Grouped(t) : t[i].sales_method = m)

\* state_method_pct.sum(axis=1)
RECURSIVE RowSum(_, _, _, _)
RowSum(t, s, cols, k) ==
    IF k = 0 THEN 0
    ELSE RowSum(t, s, cols, k - 1) + GroupCount(t, s, cols[k], Len(t))

\* a row total that counts every record of the state, grouped or not
RowTotalAllRecords(t, s, cols) ==
    Cardinality({i \in DOMAIN t : t[i].state = s})

RowTotal(t, s, cols) == RowSum(t, s, cols, Len(cols))

\* state_method_pct.div(state_method_pct.sum(axis=1), axis=0) * 100
Pct(count, total) == RatMulInt(RatDivInt(Num(count), total), 100)

\* an argmax that keeps the last of several equal maxima
RECURSIVE IdxMaxLast(_, _, _)
IdxMaxLast(share, cols, k) ==
    IF k = 1 THEN cols[1]
    ELSE LET best == IdxMaxLast(share, cols, k - 1)
         IN  IF ~RatLess(share[cols[k]], share[best]) THEN cols[k] ELSE best

\* DataFrame.idxmax(axis=1): the label of the first occurrence of the maximum
RECURSIVE IdxMax(_, _, _)
IdxMax(share, cols, k) ==
    IF k = 1 THEN cols[1]
    ELSE LET best == IdxMax(share, cols, k - 1)
         IN  IF RatLess(share[best], share[cols[k]]) THEN cols[k] ELSE best

\* DataFrame.max(axis=1)
RECURSIVE RowMax(_, _, _)
RowMax(share, cols, k) ==
    IF k = 1 THEN share[cols[1]]
    ELSE LET best == RowMax(share, cols, k - 1)
         IN  IF RatLess(best, share[cols[k]]) THEN share[cols[k]] ELSE best

Range(s) == {s[i] : i \in DOMAIN s}

\* one row of choropleth_data
AggregateRow(t, s, cols) ==
    LET total == RowTotal(t, s, cols)
        share == [m \in Range(cols) |-> Pct(GroupCount(t, s, m, Len(t)), total)]
    IN  [state              |-> s,
         share              |-> share,
         dominant_method    |-> IdxMax(share, numeric_cols, Len(numeric_cols)),
         dominance_strength |-> RowMax(share, numeric_cols, Len(numeric_cols)),
         state_abbrev       |-> AbbrevOf(s)]

\* state_method_pct[numeric_cols] raises KeyError when a label of numeric_cols
\* heads no column
calculate_geographic_dominance(t) ==
    LET cols  == ColumnsOf(t)
        index == IndexOf(t)
    IN  IF ~(Range(numeric_cols) \subseteq Range(cols))
        THEN Raised("Exception")
        ELSE Returned([k \in DOMAIN index |-> AggregateRow(t, index[k], cols)])

(***************************************************************************)
(* main                                                                    *)
(***************************************************************************)
Line(text, n) == [text |-> text, n |-> n]

\* the except clauses of main: the message is printed and main returns
Except(stage, e) ==
    /\ pc' = "done"
    /\ error' = e
    /\ failed_in' = stage
    /\ stdout' = Append(stdout,
                    IF e = "FileNotFoundError"
                    THEN Line("Error: product_sales.csv not found in Study/ directory", 0)
                    ELSE Line("Error generating choropleth map", 0))

\* sales_data = load_sales_data('product_sales.csv'); print(...)
Load ==
    /\ pc = "load"
    /\ \E r \in load_sales_data(csv_exists, csv) :
        IF r.raised = "none"
        THEN /\ sales_data' = r.value
             /\ pc' = "aggregate"
             /\ stdout' = Append(stdout, Line("Loaded customer records", Len(r.value)))
             /\ UNCHANGED <<error, failed_in>>
        ELSE /\ Except("load", r.raised)
             /\ UNCHANGED sales_data
    /\ UNCHANGED <<csv_exists, csv, choropleth_data, html>>

\* a main that goes on to the renderer whatever the aggregator did
AggregateThenRenderAnyway ==
    /\ pc = "aggregate"
    /\ LET r == calculate_geographic_dominance(sales_data)
       IN  /\ choropleth_data' = r.value
           /\ pc' = "render"
           /\ failed_in' = IF r.raised = "none" THEN failed_in ELSE "aggregate"
           /\ error' = IF r.raised = "none" THEN error ELSE r.raised
           /\ stdout' = Append(stdout, Line("Calculated dominance metrics for states", Len(r.value)))
    /\ UNCHANGED <<csv_exists, csv, sales_data, html>>

\* choropleth_data = calculate_geographic_dominance(sales_data); print(...)
Aggregate ==
    /\ pc = "aggregate"
    /\ LET r == calculate_geographic_dominance(sales_data)
       IN  IF r.raised = "none"
           THEN /\ choropleth_data' = r.value
                /\ pc' = "render"
                /\ stdout' = Append(stdout,
                                Line("Calculated dominance metrics for states", Len(r.value)))
                /\ UNCHANGED <<error, failed_in>>
           ELSE /\ Except("aggregate", r.raised)
                /\ UNCHANGED choropleth_data
    /\ UNCHANGED <<csv_exists, csv, sales_data, html>>

\* create_choropleth_map(choropleth_data).  px.choropleth and plot belong to the
\* plotting library: either may raise, plot possibly after it began to write;
\* fig.show() may raise too, which create_choropleth_map itself catches.
RenderOutcomes == {"saved_shown", "saved_show_raised", "raised_before_write", "raised_in_write"}

CreateChoroplethMap ==
    /\ pc = "render"
    /\ \E o \in RenderOutcomes :
        CASE o = "saved_shown" ->
                /\ html' = "complete"
                /\ pc' = "done"
                /\ stdout' = Append(stdout, Line("Interactive choropleth map saved", 0))
                /\ UNCHANGED <<error, failed_in>>
          [] o = "saved_show_raised" ->
                /\ html' = "complete"
                /\ pc' = "done"
                /\ stdout' = stdout \o <<Line("Interactive choropleth map saved", 0),
                                         Line("Map saved to HTML file", 0)>>
                /\ UNCHANGED <<error, failed_in>>
          [] o = "raised_before_write" ->
                /\ html' = html
                /\ Except("render", "Exception")
          [] o = "raised_in_write" ->
                /\ html' = "partial"
                /\ Except("render", "Exception")
    /\ UNCHANGED <<csv_exists, csv, sales_data, choropleth_data>>

Next == Load \/ Aggregate \/ CreateChoroplethMap

(***************************************************************************)
(* Input tables.  A CSV row is [state, sales_method, revenue,              *)
(* years_as_customer]; a file with a header and no rows is the empty table.*)
(***************************************************************************)
Tables(R, n) == UNION {[1..k -> R] : k \in 0..n}

RawMethods == DOMAIN sales_method_mapping \cup {"EMAIL"}

\* every spelling of sales_method, revenue present or missing
LoadRecords ==
    [state : {"Texas"}, sales_method : RawMethods,
     revenue : {NaN, Num(10), Num(30)}, years_as_customer : {5}]

\* every side of the tenure cap
ClampRecords ==
    [state : {"Texas"}, sales_method : {"Email", "Call", "Email + Call"},
     revenue : {Num(10)}, years_as_customer : {-1, 5, 39, 40, 45}]

\* a state with an abbreviation and one without, canonical labels and an unmapped one
AggRecords ==
    [state : {"Texas", "Atlantis"}, sales_method : {"Email", "Call", "Email + Call", "EMAIL"},
     revenue : {Num(10)}, years_as_customer : {5}]

\* tables given by their counts: a Email, b Call and c Email + Call records of
\* Texas, beside one Email and one Email + Call record of Atlantis
Row(s, m) == [state |-> s, sales_method |-> m, revenue |-> Num(10), years_as_customer |-> 5]
Repeat(r, n) == [i \in 1..n |-> r]
CountTable(a, b, c) ==
    Repeat(Row("Texas", "Email"), a) \o Repeat(Row("Texas", "Call"), b)
        \o Repeat(Row("Texas", "Email + Call"), c)
        \o <<Row("Atlantis", "Email"), Row("Atlantis", "Email + Call")>>
CountTables == {CountTable(a, b, c) : a, b, c \in 0..MaxCount}

InitWith(T) ==
    /\ \/ csv_exists = FALSE /\ csv = <<>>
       \/ csv_exists = TRUE /\ csv \in T
    /\ pc = "load"
    /\ sales_data = <<>>
    /\ choropleth_data = <<>>
    /\ error = "none"
    /\ failed_in = "none"
    /\ html = "absent"
    /\ stdout = <<>>

Init == InitWith(Tables(LoadRecords, MaxRows))
InitClamp == InitWith(Tables(ClampRecords, MaxRows))
InitAgg == InitWith(Tables(AggRecords, MaxAggRows) \cup CountTables)

Spec == Init /\ [][Next]_vars
SpecClamp == InitClamp /\ [][Next]_vars
SpecAgg == InitAgg /\ [][Next]_vars

(***************************************************************************)
(* Properties                                                              *)
(***************************************************************************)
\* the canonical labels: the values of the mapping
Canonical == {sales_method_mapping[k] : k \in DOMAIN sales_method_mapping}

\* load_sales_data has returned: sales_data is the cleaned table
LoadReturned == pc # "load" /\ failed_in # "load"

\* calculate_geographic_dominance has been called
AggregateCalled == LoadReturned /\ pc \in {"render", "done"}

\* ... and has returned: choropleth_data is the aggregate table
AggregateReturned == AggregateCalled /\ failed_in # "aggregate"

AllCanonical(t) == \A i \in DOMAIN t : t[i].sales_method \in Canonical

\* C1: a returned cleaned table holds canonical categories only, and a raw
\* category that is no key of the mapping makes the load stage fail.
C1_CategoryClosure ==
    pc # "load" =>
        /\ LoadReturned => AllCanonical(sales_data)
        /\ (csv_exists /\ \E i \in DOMAIN csv : csv[i].sales_method \notin DOMAIN sales_method_mapping)
              => failed_in = "load"

\* the records of table t in state s with label c
CountOf(t, s, c) == Cardinality({i \in DOMAIN t : t[i].state = s /\ t[i].sales_method = c})
TotalOf(t, s) == Cardinality({i \in DOMAIN t : t[i].state = s})
StatesOf(t) == {t[i].state : i \in DOMAIN t}

\* C2: on a cleaned table of canonical categories the aggregator gives, for every
\* region and every canonical category c, share[c] = 100 * count(region, c) /
\* total_count(region), 0 where the region (or the whole table) has no record of c,
\* and never an error.
C2_ShareComputation ==
    (AggregateCalled /\ Len(sales_data) > 0 /\ AllCanonical(sales_data)) =>
        /\ failed_in # "aggregate"
        /\ \A k \in DOMAIN choropleth_data :
            LET row == choropleth_data[k]
            IN  \A c \in Canonical :
                    /\ c \in DOMAIN row.share
                    /\ ~IsNull(row.share[c])
                    /\ row.share[c].num * TotalOf(sales_data, row.state)
                         = 100 * CountOf(sales_data, row.state, c) * row.share[c].den

\* C3: on a cleaned table the aggregator returns exactly one row per distinct
\* region of the table; a region without an abbreviation is a row whose code is
\* missing.
C3_RegionCoverage ==
    (AggregateCalled /\ Len(sales_data) > 0 /\ AllCanonical(sales_data)) =>
        /\ failed_in # "aggregate"
        /\ Len(choropleth_data) = Cardinality(StatesOf(sales_data))
        /\ \A s \in StatesOf(sales_data) :
            \E k \in DOMAIN choropleth_data :
                /\ choropleth_data[k].state = s
                /\ s \notin DOMAIN state_abbrev => choropleth_data[k].state_abbrev = NaNStr

\* the rows of the file whose category normalizes to c and whose amount is present
PresentIn(c) ==
    {j \in DOMAIN csv : MapValue(csv[j].sales_method) = c /\ ~IsNull(csv[j].revenue)}

\* C4: a canonical category of the data without any present amount makes the
\* load stage fail, so a returned cleaned table has no missing amount.
C4_ImputationPrecondition ==
    pc # "load" =>
        /\ (csv_exists /\ \E i \in DOMAIN csv :
                /\ MapValue(csv[i].sales_method) \in Canonical
                /\ PresentIn(MapValue(csv[i].sales_method)) = {})
              => failed_in = "load"
        /\ LoadReturned => \A i \in DOMAIN sales_data : ~IsNull(sales_data[i].revenue)

RECURSIVE SumRevenue(_)
SumRevenue(S) ==
    IF S = {} THEN Num(0)
    ELSE LET j == CHOOSE j \in S : TRUE
         IN  RatAdd(csv[j].revenue, SumRevenue(S \ {j}))

\* C5: in the cleaned table a record whose raw amount was missing carries the
\* mean of the present amounts of the records of its canonical category (where
\* there is such an amount), and a record whose raw amount was present keeps it.
C5_ImputationCorrectness ==
    LoadReturned =>
        \A i \in DOMAIN csv :
            LET present == PresentIn(MapValue(csv[i].sales_method))
                cleaned == sales_data[i].revenue
            IN  IF ~IsNull(csv[i].revenue) THEN cleaned = csv[i].revenue
                ELSE present # {} =>
                        /\ ~IsNull(cleaned)
                        /\ RatMulInt(cleaned, Cardinality(present)) = SumRevenue(present)

\* amounts [10, null, 30] spread over two spellings of Email impute 20
C5_Witness ==
    /\ LoadReturned
    /\ Len(csv) = 3
    /\ csv[1].sales_method = "Email" /\ csv[1].revenue = Num(10)
    /\ csv[2].sales_method = "email" /\ IsNull(csv[2].revenue)
    /\ csv[3].sales_method = "Email" /\ csv[3].revenue = Num(30)
    /\ sales_data[2].revenue = Num(20)

\* the fixed order in which equal maxima are resolved
TieOrder == <<"Call", "Email", "Email + Call">>
TieRank(c) == CHOOSE k \in DOMAIN TieOrder : TieOrder[k] = c

\* the table with rows i and i + 1 exchanged
Swap(t, i) ==
    [k \in DOMAIN t |-> IF k = i THEN t[i + 1] ELSE IF k = i + 1 THEN t[i] ELSE t[k]]

\* C6: in every row of the aggregate, dominant_method is a canonical category of
\* maximal share, dominance_strength is its share, of several maximal categories
\* the first in the order Call, Email, Email + Call wins, and exchanging two
\* records of the input changes nothing.
C6_DominanceDerivation ==
    AggregateReturned =>
        /\ \A k \in DOMAIN choropleth_data :
            LET row == choropleth_data[k]
                dom == row.dominant_method
            IN  /\ dom \in Canonical
                /\ \A c \in Canonical : ~RatLess(row.share[dom], row.share[c])
                /\ row.dominance_strength = row.share[dom]
                /\ \A c \in Canonical :
                        row.share[c] = row.share[dom] => TieRank(dom) <= TieRank(c)
        /\ \A i \in 1..(Len(sales_data) - 1) :
            sales_data[i] # sales_data[i + 1] =>
                calculate_geographic_dominance(Swap(sales_data, i)) = Returned(choropleth_data)

\* one region with Email and Email + Call tied above Call, and one region with
\* counts Email 3, Call 7, Email + Call 0
C6_Witness ==
    /\ AggregateReturned
    /\ \E k \in DOMAIN choropleth_data :
        LET row == choropleth_data[k]
        IN  /\ row.share["Email"] = Num(50) /\ row.share["Email + Call"] = Num(50)
            /\ row.dominant_method = "Email" /\ row.dominance_strength = Num(50)
    /\ \E k \in DOMAIN choropleth_data :
        LET row == choropleth_data[k]
        IN  /\ CountOf(sales_data, row.state, "Email") = 3
            /\ CountOf(sales_data, row.state, "Call") = 7
            /\ CountOf(sales_data, row.state, "Email + Call") = 0
            /\ row.dominant_method = "Call" /\ row.dominance_strength = Num(70)

\* the last line main printed is one of its two error messages
ErrorReported ==
    /\ error # "none"
    /\ Len(stdout) > 0
    /\ stdout[Len(stdout)].text =
          IF error = "FileNotFoundError"
          THEN "Error: product_sales.csv not found in Study/ directory"
          ELSE "Error generating choropleth map"

\* C7: the output file is written only once load_sales_data and
\* calculate_geographic_dominance have both returned, in that order; a missing
\* input file or an exception of either stage is reported, ends the run and
\* leaves no output file.
C7_ErrorPropagation ==
    /\ html # "absent" =>
        /\ failed_in \notin {"load", "aggregate"}
        /\ Returned(sales_data) \in load_sales_data(csv_exists, csv)
        /\ calculate_geographic_dominance(sales_data) = Returned(choropleth_data)
        /\ Len(stdout) >= 2
        /\ stdout[1] = Line("Loaded customer records", Len(csv))
        /\ stdout[2] = Line("Calculated dominance metrics for states", Len(choropleth_data))
    /\ failed_in \in {"load", "aggregate"} =>
        /\ pc = "done"
        /\ html = "absent"
        /\ ErrorReported
    /\ (pc # "load" /\ ~csv_exists) =>
        /\ failed_in = "load"
        /\ error = "FileNotFoundError"
    /\ (pc # "load" /\ failed_in # "load") => Returned(sales_data) \in load_sales_data(csv_exists, csv)
    /\ (pc \in {"render", "done"} /\ failed_in \notin {"load", "aggregate"})
          => calculate_geographic_dominance(sales_data).raised = "none"

\* the aggregator raised on a table the loader returned
C7_Witness ==
    /\ pc = "done"
    /\ failed_in = "aggregate"
    /\ Len(sales_data) = MaxRows
    /\ html = "absent"
    /\ ErrorReported

\* C8: the cleaned table has as many records as the raw table, the i-th cleaned
\* record being the i-th raw record.
C8_RowCountInvariance ==
    LoadReturned =>
        /\ Len(sales_data) = Len(csv)
        /\ \A i \in DOMAIN csv :
            /\ sales_data[i].state = csv[i].state
            /\ sales_data[i].sales_method = MapValue(csv[i].sales_method)

\* a table with an unmapped category, a missing amount and a spelling variant
C8_Witness ==
    /\ LoadReturned
    /\ Len(sales_data) = 3
    /\ \E i \in DOMAIN csv : csv[i].sales_method = "EMAIL"
    /\ \E i \in DOMAIN csv : IsNull(csv[i].revenue)
    /\ \E i \in DOMAIN csv : csv[i].sales_method = "em + call"

\* C9: in every row of the aggregate the shares of the three canonical categories
\* sum to 100, and the region has at least one counted record.
C9_ShareNormalization ==
    AggregateReturned =>
        \A k \in DOMAIN choropleth_data :
            LET row == choropleth_data[k]
            IN  /\ RatAdd(RatAdd(row.share["Call"], row.share["Email"]), row.share["Email + Call"])
                     = Num(100)
                /\ \E i \in DOMAIN sales_data :
                        sales_data[i].state = row.state /\ sales_data[i].sales_method \in Canonical

\* a region split in thirds beside a record of an unmapped category
C9_Witness ==
    /\ AggregateReturned
    /\ \E i \in DOMAIN sales_data : sales_data[i].sales_method = NaNStr
    /\ \E k \in DOMAIN choropleth_data :
        \A c \in Canonical : choropleth_data[k].share[c] = Rat(100, 3)

Min(a, b) == IF a < b THEN a ELSE b

\* C10: every cleaned tenure is min(raw tenure, 39).
C10_RangeClamp ==
    LoadReturned =>
        \A i \in DOMAIN csv :
            /\ sales_data[i].years_as_customer = Min(csv[i].years_as_customer, 39)
            /\ sales_data[i].years_as_customer <= 39

\* 45 -> 39, 39 -> 39, -1 -> -1
C10_Witness ==
    /\ LoadReturned
    /\ Len(csv) = 3
    /\ csv[1].years_as_customer = 45 /\ sales_data[1].years_as_customer = 39
    /\ csv[2].years_as_customer = 39 /\ sales_data[2].years_as_customer = 39
    /\ csv[3].years_as_customer = -1 /\ sales_data[3].years_as_customer = -1

====
